---- MODULE Spec2Model ----
(***************************************************************************)
(* Batched, rate-limited, resumable distance-matrix computation:           *)
(* BikeStationDistanceCalculator.calculate_distances of                    *)
(* src/src/bike_station_distances.py (with load_progress / save_progress), *)
(* run repeatedly over the same station table and batch size, each run     *)
(* either returning or being killed, the progress file surviving.          *)
(***************************************************************************)
EXTENDS Integers, Sequences, FiniteSets, TLC

\* Bounds of the model.
MaxStations == 3      \* station tables of 0..MaxStations rows
MaxBatch == 2         \* batch_size up to MaxBatch
MaxNegativeBatch == 1 \* batch_size down to -MaxNegativeBatch
MaxWindows == 2       \* only tables/batch sizes giving at most this many windows
MaxFailures == 2      \* failed requests per run
MaxRuns == 2          \* processes started over the same progress file

VARIABLES
    n_stations,         \* data.shape[0]
    batch_size,         \* the batch_size argument
    progress_file,      \* distance_calculation_progress.json on disk
    pc,                 \* position of the running process
    final_result,       \* the in-memory matrix
    ndim,               \* number of dimensions of the in-memory ndarray
    processed_batches,  \* the in-memory list of processed batches
    indices,            \* the list of index windows
    oi, di,             \* positions of the two for-loops in indices (1-based)
    i, j, prev,         \* the loop variables i, j and prev of the window loops
    failures,           \* failed requests of this run
    runs,               \* processes started so far
    loaded_progress,    \* the progress file as this run found it at its start
    trace,              \* what this run did: <<kind, origin window, destination window>>
    prev_exit,          \* how the previous process ended: "none", "returned", "killed"
    prev_result,        \* the matrix the previous process returned
    killed_at,          \* <<pc, oi, di>> of the previous process when it was killed
    attempted,          \* window pairs requested in any run so far
    succeeded,          \* window pairs whose request succeeded in any run so far
    plain_pc,           \* position of the process running the class without progress file
    plain_final_result, \* its final_result
    plain_indices,      \* its indices
    plain_oi, plain_di, \* the positions of its two for-loops in its indices (1-based)
    plain_trace         \* what it did: <<kind, origin window, destination window>>

vars == <<n_stations, batch_size, progress_file, pc, final_result, ndim,
          processed_batches, indices, oi, di, i, j, prev, failures, runs,
          loaded_progress, trace, prev_exit, prev_result, killed_at, attempted, succeeded,
          plain_pc, plain_final_result, plain_indices, plain_oi, plain_di, plain_trace>>

\* The state of the process that runs BikeStationDistanceCalculator of
\* src/bike_station_distances.py, the class without progress file.
plain_vars == <<plain_pc, plain_final_result, plain_indices, plain_oi, plain_di, plain_trace>>

----------------------------------------------------------------------------
\* The station table: row i (0-based) is <<ID, lat, lon>>.
StationRow(s) == <<100 + s, 40 + s, 70 + s>>

Data(n) == [r \in 1..n |-> StationRow(r - 1)]

\* A faulty extraction: [lat, lon] in place of [lon, lat].
extract_coordinates_LatLon(data, start_idx, end_idx) ==
    [k \in 1..(end_idx - start_idx) |->
        <<data[start_idx + k][2], data[start_idx + k][3]>>]

\* [[data[i, 2], data[i, 1]] for i in range(start_idx, end_idx)]
extract_coordinates(data, start_idx, end_idx) ==
    [k \in 1..(end_idx - start_idx) |->
        <<data[start_idx + k][3], data[start_idx + k][2]>>]

\* The remote service's distance from point p to point q (<<lon, lat>> each):
\* zero from a point to itself, directed otherwise.
RoadDistance(p, q) == IF p = q THEN 0 ELSE 10 * p[1] + q[2]

\* response["distances"] of a successful request: one row per origin.
ApiDistances(origins, destinations) ==
    [r \in 1..Len(origins) |->
        [c \in 1..Len(destinations) |-> RoadDistance(origins[r], destinations[c])]]

\* np.nan.  Distances are never negative; the one negative cell value stands
\* for not-a-number.
NaN == 0 - 1

\* Cells are indexed <<row, column>>, 0-based.
Cells(n) == (0..(n - 1)) \X (0..(n - 1))

\* np.full((n, n), np.nan)
NaNs(n) == [p \in Cells(n) |-> NaN]

\* A faulty creation of the matrix: filled with np.nan.
Zeros_Full(n) == [p \in Cells(n) |-> NaN]

\* np.zeros((n, n))
Zeros(n) == [p \in Cells(n) |-> 0]

\* Whether range(start, stop, step) still yields the value x it has reached.
InRange(x, stop, step) == (step > 0 /\ x < stop) \/ (step < 0 /\ x > stop)

\* "Create batches": range(batch_size, n_stations, batch_size), then the tail.
RECURSIVE BatchLoop(_, _, _, _, _)
BatchLoop(x, p, acc, n, w) ==
    IF InRange(x, n, w)
    THEN BatchLoop(x + w, x, Append(acc, <<p, x>>), n, w)
    ELSE Append(acc, <<p, n>>)

CreateBatches(n, w) == BatchLoop(w, 0, <<>>, n, w)

\* A faulty block write: the row slice stops one row early.
SliceAssign_DropsLastRow(m, O, D, results) ==
    [p \in DOMAIN m |->
        IF O[1] <= p[1] /\ p[1] < O[2] - 1 /\ D[1] <= p[2] /\ p[2] < D[2]
        THEN results[p[1] - O[1] + 1][p[2] - D[1] + 1]
        ELSE m[p]]

\* A faulty block write: the rest of the origin rows is cleared.
SliceAssign_ClearsRows(m, O, D, results) ==
    [p \in DOMAIN m |->
        IF O[1] <= p[1] /\ p[1] < O[2]
        THEN IF D[1] <= p[2] /\ p[2] < D[2]
             THEN results[p[1] - O[1] + 1][p[2] - D[1] + 1]
             ELSE 0
        ELSE m[p]]

\* final_result[O[0]:O[1], D[0]:D[1]] = results
SliceAssign(m, O, D, results) ==
    [p \in DOMAIN m |->
        IF O[1] <= p[1] /\ p[1] < O[2] /\ D[1] <= p[2] /\ p[2] < D[2]
        THEN results[p[1] - O[1] + 1][p[2] - D[1] + 1]
        ELSE m[p]]

\* A faulty skip test: all() in place of any().
AlreadyProcessed_All(origin_idx, batches) ==
    \A k \in 1..Len(batches) :
        origin_idx[1] = batches[k][1] /\ origin_idx[2] = batches[k][2]

\* any(origin_idx[0] == batch[0] and origin_idx[1] == batch[1] for batch in ...)
AlreadyProcessed(origin_idx, batches) ==
    \E k \in 1..Len(batches) :
        origin_idx[1] = batches[k][1] /\ origin_idx[2] = batches[k][2]

----------------------------------------------------------------------------
\* The progress file.  distances.tolist() is a list of rows.
ToList(m, n) == [r \in 1..n |-> [c \in 1..n |-> m[<<r - 1, c - 1>>]]]

\* np.array(progress['distances']): a list of n rows gives an n x n array,
\* the empty list a 1-dimensional empty array.
FromList(rows) ==
    [p \in Cells(Len(rows)) |-> rows[p[1] + 1][p[2] + 1]]

NdimOfList(rows) == IF Len(rows) = 0 THEN 1 ELSE 2

\* No file on disk.  `readable` is whether json.load can parse what is there.
NoFile ==
    [exists |-> FALSE, readable |-> TRUE, distances |-> <<>>, processed_batches |-> <<>>]

\* The file after open(self.progress_file, 'w') truncated it and before
\* json.dump completed: it exists and is not a JSON document.
TornFile ==
    [exists |-> TRUE, readable |-> FALSE, distances |-> <<>>, processed_batches |-> <<>>]

\* save_progress: overwrite the file with the matrix and the batch list.
save_progress(distances, batches) ==
    [exists |-> TRUE,
     readable |-> TRUE,
     distances |-> ToList(distances, n_stations),
     processed_batches |-> batches]

\* load_progress followed by the default of calculate_distances:
\* <<matrix, ndim, processed batches>>.
load_progress(file) ==
    IF file.exists
    THEN <<FromList(file.distances), NdimOfList(file.distances),
           [k \in 1..Len(file.processed_batches) |->
               <<file.processed_batches[k][1], file.processed_batches[k][2]>>]>>
    ELSE <<Zeros(n_stations), 2, <<>>>>

----------------------------------------------------------------------------
NoWindow == <<0, 0>>

Running == {"origin", "request", "inflight", "sleep"}

Init ==
    /\ n_stations \in 0..MaxStations
    /\ batch_size \in (0 - MaxNegativeBatch)..MaxBatch
    /\ Len(CreateBatches(n_stations, batch_size)) <= MaxWindows
    /\ progress_file = NoFile
    /\ pc = "idle"
    /\ final_result = Zeros(0)
    /\ ndim = 2
    /\ processed_batches = <<>>
    /\ indices = <<>>
    /\ oi = 0
    /\ di = 0
    /\ i = 0
    /\ j = 0
    /\ prev = 0
    /\ failures = 0
    /\ runs = 0
    /\ loaded_progress = NoFile
    /\ trace = <<>>
    /\ prev_exit = "none"
    /\ prev_result = Zeros(0)
    /\ killed_at = <<"none", 0, 0>>
    /\ attempted = {}
    /\ succeeded = {}
    /\ plain_pc = "p_idle"
    /\ plain_final_result = Zeros(0)
    /\ plain_indices = <<>>
    /\ plain_oi = 0
    /\ plain_di = 0
    /\ plain_trace = <<>>

\* A process starts calculate_distances: load the progress, create the batches.
StartRun ==
    /\ pc \in {"idle", "done"}
    /\ runs < MaxRuns
    /\ progress_file.readable
    /\ batch_size # 0
    /\ runs' = runs + 1
    /\ loaded_progress' = progress_file
    /\ final_result' = load_progress(progress_file)[1]
    /\ ndim' = load_progress(progress_file)[2]
    /\ processed_batches' = load_progress(progress_file)[3]
    /\ indices' = CreateBatches(n_stations, batch_size)
    /\ oi' = 1
    /\ di' = 0
    /\ failures' = 0
    /\ trace' = <<>>
    /\ pc' = "origin"
    /\ IF pc = "done"
       THEN /\ prev_exit' = "returned"
            /\ prev_result' = final_result
            /\ killed_at' = <<"none", 0, 0>>
       ELSE UNCHANGED <<prev_exit, prev_result, killed_at>>
    /\ UNCHANGED plain_vars
    /\ UNCHANGED <<n_stations, batch_size, i, j, prev, progress_file, attempted, succeeded>>

\* A process starts calculate_distances on a progress file that is not a JSON
\* document: json.load raises in load_progress and nothing catches it.
LoadRaises ==
    /\ pc \in {"idle", "raised"}
    /\ runs < MaxRuns
    /\ ~progress_file.readable
    /\ runs' = runs + 1
    /\ loaded_progress' = progress_file
    /\ pc' = "raised"
    /\ UNCHANGED plain_vars
    /\ UNCHANGED <<n_stations, batch_size, i, j, prev, progress_file, final_result,
                   ndim, processed_batches, indices, oi, di, failures, trace,
                   prev_exit, prev_result, killed_at, attempted, succeeded>>

\* A process starts calculate_distances with batch_size 0: the progress is
\* loaded, then range(0, n_stations, 0) raises ValueError.
RangeRaises ==
    /\ pc \in {"idle", "raised"}
    /\ runs < MaxRuns
    /\ progress_file.readable
    /\ batch_size = 0
    /\ runs' = runs + 1
    /\ loaded_progress' = progress_file
    /\ pc' = "raised"
    /\ UNCHANGED plain_vars
    /\ UNCHANGED <<n_stations, batch_size, i, j, prev, progress_file, final_result,
                   ndim, processed_batches, indices, oi, di, failures, trace,
                   prev_exit, prev_result, killed_at, attempted, succeeded>>

\* The origin loop is exhausted: return final_result.
Return ==
    /\ pc = "origin"
    /\ oi > Len(indices)
    /\ pc' = "done"
    /\ UNCHANGED plain_vars
    /\ UNCHANGED <<n_stations, batch_size, i, j, prev, progress_file, final_result, ndim,
                   processed_batches, indices, oi, di, failures, runs, loaded_progress, trace,
                   prev_exit, prev_result, killed_at, attempted, succeeded>>

\* "Skipping already processed batch": continue with the next origin window.
SkipOrigin ==
    /\ pc = "origin"
    /\ oi <= Len(indices)
    /\ AlreadyProcessed(indices[oi], processed_batches)
    /\ oi' = oi + 1
    /\ trace' = Append(trace, <<"skip", indices[oi], NoWindow>>)
    /\ UNCHANGED plain_vars
    /\ UNCHANGED <<n_stations, batch_size, i, j, prev, progress_file, pc, final_result, ndim,
                   processed_batches, indices, di, failures, runs, loaded_progress,
                   prev_exit, prev_result, killed_at, attempted, succeeded>>

\* Enter the destination loop of an origin window that is not skipped.
EnterOrigin ==
    /\ pc = "origin"
    /\ oi <= Len(indices)
    /\ ~AlreadyProcessed(indices[oi], processed_batches)
    /\ di' = 1
    /\ pc' = "request"
    /\ UNCHANGED plain_vars
    /\ UNCHANGED <<n_stations, batch_size, i, j, prev, progress_file, final_result, ndim,
                   processed_batches, indices, oi, failures, runs, loaded_progress, trace,
                   prev_exit, prev_result, killed_at, attempted, succeeded>>

\* _make_api_request is called for (indices[oi], indices[di]).
IssueRequest ==
    /\ pc = "request"
    /\ pc' = "inflight"
    /\ trace' = Append(trace, <<"request", indices[oi], indices[di]>>)
    /\ attempted' = attempted \cup {<<indices[oi], indices[di]>>}
    /\ UNCHANGED plain_vars
    /\ UNCHANGED <<n_stations, batch_size, i, j, prev, progress_file, final_result, ndim,
                   processed_batches, indices, oi, di, failures, runs, loaded_progress,
                   prev_exit, prev_result, killed_at, succeeded>>

\* The position after the body of the destination loop for (oi, di).
AdvanceDestination ==
    IF di < Len(indices)
    THEN /\ di' = di + 1
         /\ pc' = "request"
         /\ oi' = oi
    ELSE /\ di' = 0
         /\ pc' = "origin"
         /\ oi' = oi + 1

\* The except branch: log, save the progress, continue (no sleep).
ExceptBranch(kind) ==
    /\ progress_file' = save_progress(final_result, processed_batches)
    /\ trace' = Append(Append(trace, <<kind, indices[oi], indices[di]>>),
                       <<"save", indices[oi], indices[di]>>)
    /\ AdvanceDestination
    /\ UNCHANGED <<final_result, ndim, processed_batches>>

\* A faulty success branch: the progress is saved before the block is written
\* and the origin window recorded.
ResponseOk_SaveBeforeUpdate ==
    /\ pc = "inflight"
    /\ LET O == indices[oi]
           D == indices[di]
           origins == extract_coordinates(Data(n_stations), O[1], O[2])
           destinations == extract_coordinates(Data(n_stations), D[1], D[2])
           results == ApiDistances(origins, destinations)
       IN  /\ progress_file' = save_progress(final_result, processed_batches)
           /\ final_result' = SliceAssign(final_result, O, D, results)
           /\ processed_batches' = Append(processed_batches, O)
           /\ trace' = Append(Append(trace, <<"ok", O, D>>), <<"save", O, D>>)
           /\ succeeded' = succeeded \cup {<<O, D>>}
           /\ pc' = "sleep"
           /\ UNCHANGED <<ndim, oi, di>>
    /\ UNCHANGED plain_vars
    /\ UNCHANGED <<n_stations, batch_size, i, j, prev, indices, failures, runs, loaded_progress,
                   prev_exit, prev_result, killed_at, attempted>>

\* The request returned distances: write the block, record the origin window,
\* save the progress.  Indexing a 1-dimensional array with two slices raises,
\* which the except branch catches.
ResponseOk ==
    /\ pc = "inflight"
    /\ LET O == indices[oi]
           D == indices[di]
           origins == extract_coordinates(Data(n_stations), O[1], O[2])
           destinations == extract_coordinates(Data(n_stations), D[1], D[2])
           results == ApiDistances(origins, destinations)
       IN  IF ndim = 2
           THEN /\ final_result' = SliceAssign(final_result, O, D, results)
                /\ processed_batches' = Append(processed_batches, O)
                /\ progress_file' = save_progress(final_result', processed_batches')
                /\ trace' = Append(Append(trace, <<"ok", O, D>>), <<"save", O, D>>)
                /\ succeeded' = succeeded \cup {<<O, D>>}
                /\ pc' = "sleep"
                /\ UNCHANGED <<ndim, oi, di>>
           ELSE /\ ExceptBranch("raise")
                /\ UNCHANGED succeeded
    /\ UNCHANGED plain_vars
    /\ UNCHANGED <<n_stations, batch_size, i, j, prev, indices, failures, runs, loaded_progress,
                   prev_exit, prev_result, killed_at, attempted>>

\* A faulty failure branch: the exception is not caught and ends the process.
ResponseError_Propagates ==
    /\ pc = "inflight"
    /\ failures < MaxFailures
    /\ failures' = failures + 1
    /\ pc' = "aborted"
    /\ trace' = Append(trace, <<"error", indices[oi], indices[di]>>)
    /\ UNCHANGED plain_vars
    /\ UNCHANGED <<n_stations, batch_size, i, j, prev, progress_file, final_result, ndim,
                   processed_batches, indices, oi, di, runs, loaded_progress,
                   prev_exit, prev_result, killed_at, attempted, succeeded>>

\* The request raised (HTTP error, timeout, malformed payload).
ResponseError ==
    /\ pc = "inflight"
    /\ failures < MaxFailures
    /\ failures' = failures + 1
    /\ ExceptBranch("error")
    /\ UNCHANGED plain_vars
    /\ UNCHANGED <<n_stations, batch_size, i, j, prev, indices, runs, loaded_progress,
                   prev_exit, prev_result, killed_at, attempted, succeeded>>

\* time.sleep(self.rate_limit) at the end of the loop body.
Sleep ==
    /\ pc = "sleep"
    /\ trace' = Append(trace, <<"sleep", indices[oi], indices[di]>>)
    /\ AdvanceDestination
    /\ UNCHANGED plain_vars
    /\ UNCHANGED <<n_stations, batch_size, i, j, prev, progress_file, final_result, ndim,
                   processed_batches, indices, failures, runs, loaded_progress,
                   prev_exit, prev_result, killed_at, attempted, succeeded>>

\* The process is killed: its memory is lost, the progress file stays.
Interrupt ==
    /\ pc \in Running
    /\ runs < MaxRuns
    /\ pc' = "idle"
    /\ prev_exit' = "killed"
    /\ killed_at' = <<pc, oi, di>>
    /\ prev_result' = Zeros(0)
    /\ final_result' = Zeros(0)
    /\ ndim' = 2
    /\ processed_batches' = <<>>
    /\ indices' = <<>>
    /\ oi' = 0
    /\ di' = 0
    /\ failures' = 0
    /\ trace' = <<>>
    /\ loaded_progress' = NoFile
    /\ UNCHANGED plain_vars
    /\ UNCHANGED <<n_stations, batch_size, i, j, prev, progress_file, runs, attempted, succeeded>>

\* The process is killed inside save_progress, between the truncation of the
\* file and the end of json.dump.
InterruptDuringSave ==
    /\ pc = "inflight"
    /\ runs < MaxRuns
    /\ progress_file' = TornFile
    /\ pc' = "idle"
    /\ prev_exit' = "killed"
    /\ killed_at' = <<"saving", oi, di>>
    /\ prev_result' = Zeros(0)
    /\ final_result' = Zeros(0)
    /\ ndim' = 2
    /\ processed_batches' = <<>>
    /\ indices' = <<>>
    /\ oi' = 0
    /\ di' = 0
    /\ failures' = 0
    /\ trace' = <<>>
    /\ loaded_progress' = NoFile
    /\ UNCHANGED plain_vars
    /\ UNCHANGED <<n_stations, batch_size, i, j, prev, runs, attempted, succeeded>>

RunStep ==
    \/ Return
    \/ SkipOrigin
    \/ EnterOrigin
    \/ IssueRequest
    \/ ResponseOk
    \/ ResponseError
    \/ Sleep

Next ==
    \/ StartRun
    \/ LoadRaises
    \/ RangeRaises
    \/ RunStep
    \/ Interrupt
    \/ InterruptDuringSave

Spec == Init /\ [][Next]_vars

\* Runs that are never killed; every step of a started run is eventually taken.
NextUninterrupted ==
    \/ StartRun
    \/ RangeRaises
    \/ RunStep

FairSpec == Init /\ [][NextUninterrupted]_vars /\ WF_vars(RunStep)

----------------------------------------------------------------------------
\* The window loops on their own, over larger tables.
MaxPartitionStations == 8     \* station counts 0..MaxPartitionStations
MaxPartitionBatch == 4        \* window sizes 1..MaxPartitionBatch

PartitionInit ==
    /\ n_stations \in 0..MaxPartitionStations
    /\ batch_size \in 1..MaxPartitionBatch
    /\ pc = "batches"
    /\ indices = <<>>
    /\ prev = 0
    /\ i = batch_size
    /\ j = 0
    /\ progress_file = NoFile
    /\ final_result = Zeros(0)
    /\ ndim = 2
    /\ processed_batches = <<>>
    /\ oi = 0
    /\ di = 0
    /\ failures = 0
    /\ runs = 0
    /\ loaded_progress = NoFile
    /\ trace = <<>>
    /\ prev_exit = "none"
    /\ prev_result = Zeros(0)
    /\ killed_at = <<"none", 0, 0>>
    /\ attempted = {}
    /\ succeeded = {}
    /\ plain_pc = "p_idle"
    /\ plain_final_result = Zeros(0)
    /\ plain_indices = <<>>
    /\ plain_oi = 0
    /\ plain_di = 0
    /\ plain_trace = <<>>

\* A faulty loop body: prev is not moved to i.
BatchStep_KeepsPrev ==
    /\ pc = "batches"
    /\ InRange(i, n_stations, batch_size)
    /\ indices' = Append(indices, <<prev, i>>)
    /\ i' = i + batch_size
    /\ UNCHANGED plain_vars
    /\ UNCHANGED <<n_stations, batch_size, j, prev, progress_file, pc, final_result,
                   ndim, processed_batches, oi, di, failures, runs, loaded_progress,
                   trace, prev_exit, prev_result, killed_at, attempted, succeeded>>

\* One iteration of "for i in range(batch_size, n_stations, batch_size)".
BatchStep ==
    /\ pc = "batches"
    /\ InRange(i, n_stations, batch_size)
    /\ indices' = Append(indices, <<prev, i>>)
    /\ prev' = i
    /\ i' = i + batch_size
    /\ UNCHANGED plain_vars
    /\ UNCHANGED <<n_stations, batch_size, j, progress_file, pc, final_result,
                   ndim, processed_batches, oi, di, failures, runs, loaded_progress,
                   trace, prev_exit, prev_result, killed_at, attempted, succeeded>>

\* The range is exhausted: indices.append([prev, n_stations]).
BatchTail ==
    /\ pc = "batches"
    /\ ~InRange(i, n_stations, batch_size)
    /\ indices' = Append(indices, <<prev, n_stations>>)
    /\ pc' = "batched"
    /\ UNCHANGED plain_vars
    /\ UNCHANGED <<n_stations, batch_size, i, j, prev, progress_file, final_result,
                   ndim, processed_batches, oi, di, failures, runs, loaded_progress,
                   trace, prev_exit, prev_result, killed_at, attempted, succeeded>>

PartitionNext ==
    \/ BatchStep
    \/ BatchTail

PartitionSpec == PartitionInit /\ [][PartitionNext]_vars

\* The windows of the module-level calculate_distances:
\* for i in range(0, n, WINDOW_SIZE): i_end = min(i + WINDOW_SIZE, n).
RECURSIVE FunctionWindowLoop(_, _, _, _)
FunctionWindowLoop(x, acc, n, w) ==
    IF InRange(x, n, w)
    THEN FunctionWindowLoop(x + w, Append(acc, <<x, IF x + w < n THEN x + w ELSE n>>), n, w)
    ELSE acc

FunctionWindows(n, w) == FunctionWindowLoop(0, <<>>, n, w)

----------------------------------------------------------------------------
\* The module-level calculate_distances(stations): no progress file, a matrix
\* created with np.nan, windows of WINDOW_SIZE (batch_size here) stations
\* starting at i and j.
FunctionInit ==
    /\ n_stations \in 0..MaxStations
    /\ batch_size \in 1..MaxBatch
    /\ Len(FunctionWindows(n_stations, batch_size)) <= MaxWindows
    /\ pc = "f_idle"
    /\ indices = <<>>
    /\ prev = 0
    /\ i = 0
    /\ j = 0
    /\ progress_file = NoFile
    /\ final_result = Zeros(0)
    /\ ndim = 2
    /\ processed_batches = <<>>
    /\ oi = 0
    /\ di = 0
    /\ failures = 0
    /\ runs = 0
    /\ loaded_progress = NoFile
    /\ trace = <<>>
    /\ prev_exit = "none"
    /\ prev_result = Zeros(0)
    /\ killed_at = <<"none", 0, 0>>
    /\ attempted = {}
    /\ succeeded = {}
    /\ plain_pc = "p_idle"
    /\ plain_final_result = Zeros(0)
    /\ plain_indices = <<>>
    /\ plain_oi = 0
    /\ plain_di = 0
    /\ plain_trace = <<>>

\* i_end = min(i + WINDOW_SIZE, n_stations), and j_end alike.
WindowEnd(x) == IF x + batch_size < n_stations THEN x + batch_size ELSE n_stations

FunctionOrigin == <<i, WindowEnd(i)>>

FunctionDestination == <<j, WindowEnd(j)>>

\* The points of stations a..b-1, each with its lon and lat.
FunctionPoints(a, b) ==
    [k \in 1..(b - a) |-> <<StationRow(a + k - 1)[3], StationRow(a + k - 1)[2]>>]

\* distances = np.full(..., np.nan); the loops start at i = 0, j = 0, or are
\* empty and the function returns.
FunctionStart ==
    /\ pc = "f_idle"
    /\ final_result' = NaNs(n_stations)
    /\ i' = 0
    /\ j' = 0
    /\ pc' = IF InRange(0, n_stations, batch_size) THEN "f_request" ELSE "f_done"
    /\ UNCHANGED plain_vars
    /\ UNCHANGED <<n_stations, batch_size, prev, progress_file, ndim, processed_batches,
                   indices, oi, di, failures, runs, loaded_progress, trace,
                   prev_exit, prev_result, killed_at, attempted, succeeded>>

\* requests.post for the windows at i and j.
FunctionIssue ==
    /\ pc = "f_request"
    /\ pc' = "f_inflight"
    /\ trace' = Append(trace, <<"request", FunctionOrigin, FunctionDestination>>)
    /\ attempted' = attempted \cup {<<FunctionOrigin, FunctionDestination>>}
    /\ UNCHANGED plain_vars
    /\ UNCHANGED <<n_stations, batch_size, i, j, prev, progress_file, final_result,
                   ndim, processed_batches, indices, oi, di, failures, runs,
                   loaded_progress, prev_exit, prev_result, killed_at, succeeded>>

\* The position after the body of the inner loop for (i, j).
FunctionAdvance ==
    IF InRange(j + batch_size, n_stations, batch_size)
    THEN /\ j' = j + batch_size
         /\ i' = i
         /\ pc' = "f_request"
    ELSE IF InRange(i + batch_size, n_stations, batch_size)
         THEN /\ i' = i + batch_size
              /\ j' = 0
              /\ pc' = "f_request"
         ELSE /\ pc' = "f_done"
              /\ UNCHANGED <<i, j>>

\* The response has 'distances': write the block; the sleep follows.
FunctionOk ==
    /\ pc = "f_inflight"
    /\ final_result' =
           SliceAssign(final_result, FunctionOrigin, FunctionDestination,
                       ApiDistances(FunctionPoints(i, WindowEnd(i)),
                                    FunctionPoints(j, WindowEnd(j))))
    /\ trace' = Append(trace, <<"ok", FunctionOrigin, FunctionDestination>>)
    /\ succeeded' = succeeded \cup {<<FunctionOrigin, FunctionDestination>>}
    /\ pc' = "f_sleep"
    /\ UNCHANGED plain_vars
    /\ UNCHANGED <<n_stations, batch_size, i, j, prev, progress_file, ndim,
                   processed_batches, indices, oi, di, failures, runs,
                   loaded_progress, prev_exit, prev_result, killed_at, attempted>>

\* The response has no 'distances': nothing is written; the sleep follows.
FunctionOkWithoutDistances ==
    /\ pc = "f_inflight"
    /\ failures < MaxFailures
    /\ failures' = failures + 1
    /\ trace' = Append(trace, <<"empty", FunctionOrigin, FunctionDestination>>)
    /\ pc' = "f_sleep"
    /\ UNCHANGED plain_vars
    /\ UNCHANGED <<n_stations, batch_size, i, j, prev, progress_file, final_result,
                   ndim, processed_batches, indices, oi, di, runs, loaded_progress,
                   prev_exit, prev_result, killed_at, attempted, succeeded>>

\* time.sleep(RATE_LIMIT) inside the try.
FunctionSleep ==
    /\ pc = "f_sleep"
    /\ trace' = Append(trace, <<"sleep", FunctionOrigin, FunctionDestination>>)
    /\ FunctionAdvance
    /\ UNCHANGED plain_vars
    /\ UNCHANGED <<n_stations, batch_size, prev, progress_file, final_result, ndim,
                   processed_batches, indices, oi, di, failures, runs,
                   loaded_progress, prev_exit, prev_result, killed_at, attempted,
                   succeeded>>

\* requests.exceptions.RequestException: log and continue.
FunctionError ==
    /\ pc = "f_inflight"
    /\ failures < MaxFailures
    /\ failures' = failures + 1
    /\ trace' = Append(trace, <<"error", FunctionOrigin, FunctionDestination>>)
    /\ FunctionAdvance
    /\ UNCHANGED plain_vars
    /\ UNCHANGED <<n_stations, batch_size, prev, progress_file, final_result, ndim,
                   processed_batches, indices, oi, di, runs, loaded_progress,
                   prev_exit, prev_result, killed_at, attempted, succeeded>>

FunctionNext ==
    \/ FunctionStart
    \/ FunctionIssue
    \/ FunctionOk
    \/ FunctionOkWithoutDistances
    \/ FunctionSleep
    \/ FunctionError

FunctionSpec == FunctionInit /\ [][FunctionNext]_vars

\* Runs of the class and runs of the module-level function.
BothInit == Init \/ FunctionInit

BothNext == Next \/ FunctionNext

BothSpec == BothInit /\ [][BothNext]_vars

FunctionRunning == {"f_request", "f_inflight", "f_sleep"}

----------------------------------------------------------------------------
\* BikeStationDistanceCalculator.calculate_distances of
\* src/bike_station_distances.py: the same batches and loops with no progress
\* file, run over the same station table and batch size as the class above.
resumable_vars ==
    <<n_stations, batch_size, progress_file, pc, final_result, ndim,
      processed_batches, indices, oi, di, i, j, prev, failures, runs,
      loaded_progress, trace, prev_exit, prev_result, killed_at, attempted, succeeded>>

\* What the run of the resumable class got from the service for (O, D).
RequestOutcomes(O, D) ==
    {trace[k][1] : k \in {l \in 1..Len(trace) :
                             /\ trace[l][1] \in {"ok", "raise", "error"}
                             /\ trace[l][2] = O
                             /\ trace[l][3] = D}}

\* The service answers a request of this process as it answered the request of
\* the resumable run for the same pair, and with distances for a pair that run
\* did not request.
ServiceFails(O, D) == "error" \in RequestOutcomes(O, D)

ServiceReturns(O, D) == ~ServiceFails(O, D)

PlainRunning == {"p_request", "p_inflight", "p_sleep"}

\* The process starts calculate_distances once the process of the resumable
\* class has ended (the two share nothing but the service): np.zeros, create
\* the batches, enter both loops (indices is never empty).
PlainStart ==
    /\ plain_pc = "p_idle"
    /\ pc \in {"done", "raised"}
    /\ batch_size # 0
    /\ plain_final_result' = Zeros(n_stations)
    /\ plain_indices' = CreateBatches(n_stations, batch_size)
    /\ plain_oi' = 1
    /\ plain_di' = 1
    /\ plain_pc' = "p_request"
    /\ UNCHANGED plain_trace
    /\ UNCHANGED resumable_vars

\* With batch_size 0, range(0, n_stations, 0) raises ValueError.
PlainRangeRaises ==
    /\ plain_pc = "p_idle"
    /\ pc \in {"done", "raised"}
    /\ batch_size = 0
    /\ plain_pc' = "p_raised"
    /\ UNCHANGED <<plain_final_result, plain_indices, plain_oi, plain_di, plain_trace>>
    /\ UNCHANGED resumable_vars

\* _make_api_request is called for (indices[oi], indices[di]).
PlainIssue ==
    /\ plain_pc = "p_request"
    /\ plain_pc' = "p_inflight"
    /\ plain_trace' =
           Append(plain_trace, <<"request", plain_indices[plain_oi], plain_indices[plain_di]>>)
    /\ UNCHANGED <<plain_final_result, plain_indices, plain_oi, plain_di>>
    /\ UNCHANGED resumable_vars

\* The position after the body of the destination loop; after the last pair,
\* return final_result.
PlainAdvance ==
    IF plain_di < Len(plain_indices)
    THEN /\ plain_di' = plain_di + 1
         /\ plain_oi' = plain_oi
         /\ plain_pc' = "p_request"
    ELSE IF plain_oi < Len(plain_indices)
         THEN /\ plain_di' = 1
              /\ plain_oi' = plain_oi + 1
              /\ plain_pc' = "p_request"
         ELSE /\ plain_pc' = "p_done"
              /\ UNCHANGED <<plain_oi, plain_di>>

\* The request returned distances: write the block; the sleep follows.
PlainOk ==
    /\ plain_pc = "p_inflight"
    /\ LET O == plain_indices[plain_oi]
           D == plain_indices[plain_di]
           origins == extract_coordinates(Data(n_stations), O[1], O[2])
           destinations == extract_coordinates(Data(n_stations), D[1], D[2])
           results == ApiDistances(origins, destinations)
       IN  /\ ServiceReturns(O, D)
           /\ plain_final_result' = SliceAssign(plain_final_result, O, D, results)
           /\ plain_trace' = Append(plain_trace, <<"ok", O, D>>)
    /\ plain_pc' = "p_sleep"
    /\ UNCHANGED <<plain_indices, plain_oi, plain_di>>
    /\ UNCHANGED resumable_vars

\* A faulty except branch: the sleep follows the failed request as well.
PlainError_ThenSleep ==
    /\ plain_pc = "p_inflight"
    /\ ServiceFails(plain_indices[plain_oi], plain_indices[plain_di])
    /\ plain_trace' =
           Append(plain_trace, <<"error", plain_indices[plain_oi], plain_indices[plain_di]>>)
    /\ plain_pc' = "p_sleep"
    /\ UNCHANGED <<plain_final_result, plain_indices, plain_oi, plain_di>>
    /\ UNCHANGED resumable_vars

\* The request raised: log the error and continue (no sleep).
PlainError ==
    /\ plain_pc = "p_inflight"
    /\ ServiceFails(plain_indices[plain_oi], plain_indices[plain_di])
    /\ plain_trace' =
           Append(plain_trace, <<"error", plain_indices[plain_oi], plain_indices[plain_di]>>)
    /\ PlainAdvance
    /\ UNCHANGED <<plain_final_result, plain_indices>>
    /\ UNCHANGED resumable_vars

\* time.sleep(self.rate_limit) at the end of the loop body.
PlainSleep ==
    /\ plain_pc = "p_sleep"
    /\ plain_trace' =
           Append(plain_trace, <<"sleep", plain_indices[plain_oi], plain_indices[plain_di]>>)
    /\ PlainAdvance
    /\ UNCHANGED <<plain_final_result, plain_indices>>
    /\ UNCHANGED resumable_vars

PlainStep ==
    \/ PlainStart
    \/ PlainRangeRaises
    \/ PlainIssue
    \/ PlainOk
    \/ PlainError
    \/ PlainSleep

\* The first two processes of the resumable class, before the process of the
\* class without progress file starts.
ResumableStart ==
    /\ plain_pc = "p_idle"
    /\ runs <= 1
    /\ StartRun \/ RangeRaises

\* The first process is killed while it handles its first pair of windows.
KillFirstRun ==
    /\ runs = 1
    /\ oi = 1
    /\ di <= 1
    /\ Interrupt

\* One or two runs of the resumable class, the second finding what the first
\* left, then one run of the class without progress file.
EquivNext ==
    \/ ResumableStart
    \/ RunStep
    \/ KillFirstRun
    \/ PlainStep

EquivSpec == Init /\ [][EquivNext]_vars

----------------------------------------------------------------------------
\* Vocabulary of the properties.

\* The partition of this station table, as the run builds it.
Windows == CreateBatches(n_stations, batch_size)

WindowSet == {Windows[k] : k \in 1..Len(Windows)}

BatchSet(batches) == {batches[k] : k \in 1..Len(batches)}

EventsOf(tr, kind) == SelectSeq(tr, LAMBDA e : e[1] = kind)

\* The <<origin window, destination window>> pairs requested, in order.
RequestPairs(tr) ==
    [k \in 1..Len(EventsOf(tr, "request")) |->
        <<EventsOf(tr, "request")[k][2], EventsOf(tr, "request")[k][3]>>]

\* The pairs of the given origin windows with every destination window, origin-major.
RECURSIVE OriginMajor(_, _)
OriginMajor(origins, dests) ==
    IF origins = <<>>
    THEN <<>>
    ELSE [k \in 1..Len(dests) |-> <<Head(origins), dests[k]>>]
             \o OriginMajor(Tail(origins), dests)

\* What the service answers for the stations at rows i and j of the table.
Coordinate(s) == <<StationRow(s)[3], StationRow(s)[2]>>

ServiceDistance(a, b) == RoadDistance(Coordinate(a), Coordinate(b))

BlockCells(O, D) ==
    {p \in Cells(n_stations) :
        O[1] <= p[1] /\ p[1] < O[2] /\ D[1] <= p[2] /\ p[2] < D[2]}

BlockHoldsResponse(m, O, D) ==
    \A p \in BlockCells(O, D) : m[p] = ServiceDistance(p[1], p[2])

\* The value np.zeros gave the cell when the matrix was created.
BlockUnset(m, O, D) == \A p \in BlockCells(O, D) : m[p] = 0

FreshRun == ~loaded_progress.exists

\* Between the request at position k of the trace and the next request (or the
\* end of the trace) there are exactly `count` events of the given kind.
FollowedBy(tr, k, kind, count) ==
    LET later == {l \in (k + 1)..Len(tr) : tr[l][1] = "request"}
        stop == IF later = {} THEN Len(tr) + 1
                ELSE CHOOSE l \in later : \A l2 \in later : l <= l2
    IN  Cardinality({m \in (k + 1)..(stop - 1) : tr[m][1] = kind}) = count

----------------------------------------------------------------------------
\* C1: a run killed after origin window O1 was completed and before the
\* destination loop of the next origin window O2 finished is followed by a run
\* that requests O2 again, starting from its first destination window, and that
\* returns a matrix holding the service's answer in every block whose request
\* succeeded.
C1_Resumability ==
    (/\ pc = "done"
     /\ prev_exit = "killed"
     /\ killed_at[1] \in Running
     /\ killed_at[2] >= 2
     /\ killed_at[2] <= Len(indices))
    => LET O2 == indices[killed_at[2]]
           fromO2 == SelectSeq(RequestPairs(trace), LAMBDA r : r[1] = O2)
       IN  /\ Len(fromO2) > 0
           /\ fromO2[1] = <<O2, indices[1]>>
           /\ \A pr \in succeeded : BlockHoldsResponse(final_result, pr[1], pr[2])
           /\ \A D \in WindowSet :
                  <<"ok", O2, D>> \in BatchSet(trace)
                      => BlockHoldsResponse(final_result, O2, D)

\* C2: an origin window is in the completed list, in memory or in the progress
\* file, only if every destination window has been requested under it.
C2_CompletedOnlyAfterAllDestinations ==
    \A O \in BatchSet(processed_batches) \cup BatchSet(progress_file.processed_batches) :
        \A D \in WindowSet : <<O, D>> \in attempted

\* C3: a run that follows a run which returned issues no request and returns
\* the matrix the first run returned.
C3_Idempotence ==
    (pc = "done" /\ prev_exit = "returned")
    => /\ EventsOf(trace, "request") = <<>>
       /\ final_result = prev_result

\* C4: a fresh run in which exactly one request fails returns with the service's
\* answer in every other block; the failed block alone was never written and
\* holds the values the matrix was created with.
C4_PartialFailureContainment ==
    (/\ pc = "done"
     /\ FreshRun
     /\ Len(EventsOf(trace, "error")) = 1)
    => \A O \in WindowSet : \A D \in WindowSet :
           IF <<"error", O, D>> \in BatchSet(trace)
           THEN BlockUnset(final_result, O, D) /\ <<O, D>> \notin succeeded
           ELSE BlockHoldsResponse(final_result, O, D) /\ <<O, D>> \in succeeded

\* C4 witness: a fresh run over two windows returned after exactly one failure.
C4_Witness ==
    /\ pc = "done"
    /\ FreshRun
    /\ Len(Windows) = 2
    /\ n_stations = 3
    /\ Len(EventsOf(trace, "error")) = 1
    /\ Len(EventsOf(trace, "ok")) = 3

\* C5: between any two requests of a run the rate-limit wait was performed.
C5_RateLimitBetweenRequests ==
    \A k \in 1..Len(trace) : \A l \in 1..Len(trace) :
        (k < l /\ trace[k][1] = "request" /\ trace[l][1] = "request")
        => \E m \in k..l : trace[m][1] = "sleep"

\* C6: a fresh run requests every pair of windows exactly once, in origin-major
\* order, and performs exactly one rate-limit wait after each request; for 3
\* stations and batch size 2 these are the four requests (0,2)x(0,2),
\* (0,2)x(2,3), (2,3)x(0,2), (2,3)x(2,3).
C6_FreshRunRequestsAndWaits ==
    (pc = "done" /\ FreshRun)
    => /\ RequestPairs(trace) = OriginMajor(Windows, Windows)
       /\ \A k \in 1..Len(trace) :
              trace[k][1] = "request" => FollowedBy(trace, k, "sleep", 1)
       /\ (n_stations = 3 /\ batch_size = 2)
              => RequestPairs(trace) =
                     << <<<<0, 2>>, <<0, 2>>>>, <<<<0, 2>>, <<2, 3>>>>,
                        <<<<2, 3>>, <<0, 2>>>>, <<<<2, 3>>, <<2, 3>>>> >>

\* The request sequence of a fresh run alone (C6 without the waits).
FreshRunRequestOrder ==
    (pc = "done" /\ FreshRun) => RequestPairs(trace) = OriginMajor(Windows, Windows)

\* C7: a run requests exactly the origin windows that the progress file it
\* loaded does not list, each against every destination window in order, and
\* never an origin window the file lists; with (0,2) listed for 3 stations and
\* batch size 2, exactly (2,3)x(0,2) and (2,3)x(2,3).
C7_SkipOnResume ==
    LET listed == BatchSet(loaded_progress.processed_batches)
        todo == SelectSeq(Windows, LAMBDA O : O \notin listed)
        asked == RequestPairs(trace)
        expected == OriginMajor(todo, Windows)
    IN  (pc \in Running \cup {"done"})
        => /\ \A k \in 1..Len(asked) : asked[k][1] \notin listed
           /\ Len(asked) <= Len(expected)
           /\ asked = SubSeq(expected, 1, Len(asked))
           /\ pc = "done" => asked = expected
           /\ (/\ pc = "done" /\ n_stations = 3 /\ batch_size = 2
               /\ listed = {<<0, 2>>})
              => asked = << <<<<2, 3>>, <<0, 2>>>>, <<<<2, 3>>, <<2, 3>>>> >>

\* C7 witness: the rerun over 3 stations with batch size 2 that loaded a file
\* listing only (0,2) has returned after requesting the two pairs of (2,3).
C7_Witness ==
    /\ pc = "done"
    /\ n_stations = 3
    /\ batch_size = 2
    /\ BatchSet(loaded_progress.processed_batches) = {<<0, 2>>}
    /\ Len(EventsOf(trace, "skip")) = 1
    /\ Len(EventsOf(trace, "request")) = 2

\* C8: once the destination loop of an origin window has finished in this run,
\* the window is in the completed list in memory and in the progress file,
\* however many of its requests failed.
C8_CompletedAfterDestinationLoop ==
    \A k \in 1..Len(indices) :
        (/\ pc \in Running \cup {"done"}
         /\ k < oi
         /\ <<"request", indices[k], indices[Len(indices)]>> \in BatchSet(trace))
        => /\ indices[k] \in BatchSet(processed_batches)
           /\ progress_file.exists
           /\ indices[k] \in BatchSet(progress_file.processed_batches)

\* What a run that has returned did with origin window O: skipped it without a
\* request, or requested each destination window once.
VisitedOnce(O) ==
    LET asked == SelectSeq(RequestPairs(trace), LAMBDA r : r[1] = O)
    IN  IF <<"skip", O, NoWindow>> \in BatchSet(trace)
        THEN asked = <<>>
        ELSE asked = [k \in 1..Len(Windows) |-> <<O, Windows[k]>>]

\* C9: whatever requests fail, a started run is never ended by a failure and
\* returns, having requested every pair of windows exactly once except under
\* the origin windows it skipped.
C9_TerminationUnderFailures ==
    /\ [](pc \in Running => <>(pc = "done"))
    /\ [](pc \in Running \cup {"idle", "done", "raised"})
    /\ [](pc = "done" => \A O \in WindowSet : VisitedOnce(O))

\* C9 witness: a run returned although requests failed, after skipping an origin
\* window and requesting another.
C9_Witness ==
    /\ pc = "done"
    /\ failures >= 1
    /\ Len(EventsOf(trace, "skip")) >= 1
    /\ Len(EventsOf(trace, "request")) >= 2

Span(win) == {x \in 0..(MaxPartitionStations + 1) : win[1] <= x /\ x < win[2]}

\* ws is a contiguous, non-overlapping cover of [0, n) by windows of length w,
\* the last possibly shorter.
IsPartition(ws, n, w) ==
    /\ Len(ws) > 0 => ws[1][1] = 0
    /\ \A k \in 1..(Len(ws) - 1) : ws[k + 1][1] = ws[k][2]
    /\ \A k \in 1..Len(ws) : \A l \in 1..Len(ws) :
           k # l => Span(ws[k]) \cap Span(ws[l]) = {}
    /\ UNION {Span(ws[k]) : k \in 1..Len(ws)} = 0..(n - 1)
    /\ \A k \in 1..Len(ws) : ws[k][1] <= ws[k][2] /\ ws[k][2] <= n
    /\ \A k \in 1..(Len(ws) - 1) : ws[k][2] - ws[k][1] = w
    /\ Len(ws) > 0 => ws[Len(ws)][2] - ws[Len(ws)][1] <= w

\* C11: for every station count and positive window size the windows the
\* window loops build start at 0, each start where the previous one ends, do
\* not overlap, cover exactly [0, n), and have length w except possibly the last.
C11_WindowsPartition ==
    (pc = "batched")
    => /\ IsPartition(indices, n_stations, batch_size)
       /\ indices = CreateBatches(n_stations, batch_size)
       /\ IsPartition(FunctionWindows(n_stations, batch_size), n_stations, batch_size)

\* C11 witness: three windows built, the last shorter than the window size.
C11_Witness ==
    /\ pc = "batched"
    /\ Len(indices) = 3
    /\ batch_size = 3
    /\ indices[3][2] - indices[3][1] = 2

Ceil(n, w) == (n + w - 1) \div w

\* C12: the loop builds exactly ceil(n / w) windows, the last of length n mod w
\* (w when n is a multiple of w), and none of length zero.
C12_WindowCount ==
    (pc = "batched")
    => /\ Len(indices) = Ceil(n_stations, batch_size)
       /\ Len(indices) > 0
              => indices[Len(indices)][2] - indices[Len(indices)][1]
                     = (IF n_stations % batch_size = 0 THEN batch_size
                        ELSE n_stations % batch_size)
       /\ \A k \in 1..Len(indices) : indices[k][2] - indices[k][1] > 0

\* The window count for a table that is not empty (C12 without the empty table).
WindowCountOfNonEmptyTable ==
    (pc = "batched" /\ n_stations > 0)
    => /\ Len(indices) = Ceil(n_stations, batch_size)
       /\ \A k \in 1..Len(indices) : indices[k][2] - indices[k][1] > 0

\* C13: with no stations the list of windows is empty, and a run issues no
\* request, performs no wait and returns the empty matrix.
C13_EmptyTable ==
    (n_stations = 0 /\ batch_size > 0 /\ pc \in Running \cup {"done"})
    => /\ indices = <<>>
       /\ EventsOf(trace, "request") = <<>>
       /\ EventsOf(trace, "sleep") = <<>>
       /\ final_result = Zeros(0)

\* C14: a run that finds a progress file it cannot parse proceeds as a fresh
\* start, with the all-zero matrix and the empty completed list, and does not
\* end with an error.
C14_UnreadableProgressIsFreshStart ==
    (~loaded_progress.readable)
    => /\ pc \in Running \cup {"done"}
       /\ trace = <<>> => final_result = Zeros(n_stations) /\ processed_batches = <<>>

\* C15: with a batch size of zero or less the run ends with an error before
\* any request is issued and before any progress file is written.
C15_NonPositiveBatchSizeRejected ==
    (batch_size <= 0)
    => /\ pc \in {"idle", "raised"}
       /\ attempted = {}
       /\ ~progress_file.exists

\* The batch size zero alone (C15 without the negative sizes).
ZeroBatchSizeRaises ==
    (batch_size = 0)
    => /\ pc \in {"idle", "raised"}
       /\ attempted = {}
       /\ ~progress_file.exists

\* C16: for every range [start, end) of the table extract_coordinates returns
\* end - start pairs, the k-th being (longitude, latitude) of station start + k,
\* so that the block written for a window pair holds, at row start + r and
\* column start + c, the distance between those two stations.
C16_ExtractCoordinates ==
    /\ \A first \in 0..n_stations : \A last \in first..n_stations :
           LET coords == extract_coordinates(Data(n_stations), first, last)
           IN  /\ Len(coords) = last - first
               /\ \A k \in 0..(last - first - 1) :
                      coords[k + 1] = <<StationRow(first + k)[3], StationRow(first + k)[2]>>
    /\ \A k \in 1..Len(trace) :
           trace[k][1] = "ok" => BlockHoldsResponse(final_result, trace[k][2], trace[k][3])

\* C16 witness: the block for origin window (2,3) and destination window (0,2)
\* of three stations has just been written.
C16_Witness ==
    /\ n_stations = 3
    /\ pc = "sleep"
    /\ trace[Len(trace) - 1] = <<"ok", <<2, 3>>, <<0, 2>>>>
    /\ final_result[<<2, 0>>] = 10 * StationRow(2)[3] + StationRow(0)[2]
    /\ final_result[<<2, 1>>] = 10 * StationRow(2)[3] + StationRow(1)[2]

\* C18: a successful request for (O, D) sets the cells of rows O and columns D
\* to the returned block and changes no other cell; a failed request changes no
\* cell of the in-memory matrix.
C18_FrameOfSubRequest ==
    [][(pc = "inflight" /\ pc' \in Running)
       => IF pc' = "sleep"
          THEN /\ DOMAIN final_result' = DOMAIN final_result
               /\ \A p \in DOMAIN final_result :
                      IF p \in BlockCells(indices[oi], indices[di])
                      THEN final_result'[p] = ServiceDistance(p[1], p[2])
                      ELSE final_result'[p] = final_result[p]
          ELSE final_result' = final_result]_vars

\* C18 witness: after a failed request, a second block has been written beside
\* one written earlier in the run, which still holds its values.
C18_Witness ==
    /\ pc = "sleep"
    /\ n_stations = 2
    /\ batch_size = 1
    /\ <<"error", <<0, 1>>, <<0, 1>>>> \in BatchSet(trace)
    /\ <<"ok", <<0, 1>>, <<1, 2>>>> \in BatchSet(trace)
    /\ trace[Len(trace) - 1] = <<"ok", <<1, 2>>, <<0, 1>>>>
    /\ final_result[<<0, 1>>] = ServiceDistance(0, 1)
    /\ final_result[<<1, 0>>] = ServiceDistance(1, 0)

NoDuplicates(batches) ==
    \A k \in 1..Len(batches) : \A l \in 1..Len(batches) :
        k # l => batches[k] # batches[l]

\* C19: in memory and in the progress file every origin window appears at most
\* once in the completed record, which never has more entries than there are
\* windows.
C19_CompletedRecordIsSet ==
    /\ NoDuplicates(processed_batches)
    /\ NoDuplicates(progress_file.processed_batches)
    /\ Len(processed_batches) <= Len(Windows)
    /\ Len(progress_file.processed_batches) <= Len(Windows)

\* C17: a fresh run of the class starts from a matrix of not-a-number cells,
\* and every block whose request never succeeded holds not-a-number, which is
\* not zero.
C17_UnsetSentinel ==
    (pc \in Running \cup {"done"})
    => /\ NaN # 0
       /\ (FreshRun /\ trace = <<>>) => final_result = NaNs(n_stations)
       /\ \A O \in WindowSet : \A D \in WindowSet :
              <<O, D>> \notin succeeded
                  => \A p \in BlockCells(O, D) : final_result[p] = NaN

\* The same statement for the module-level function.
FunctionUnsetIsNaN ==
    (pc \in FunctionRunning \cup {"f_done"})
    => \A p \in DOMAIN final_result :
           (\A pr \in succeeded : p \notin BlockCells(pr[1], pr[2]))
               => final_result[p] = NaN

Diagonal == {p \in DOMAIN final_result : p[1] = p[2]}

\* C20: in every state of the matrix, during and after a run, every diagonal
\* cell is zero.
C20_DiagonalAlwaysZero ==
    \A p \in Diagonal : final_result[p] = 0

\* C20 as amended: in the runs of the class every diagonal cell is zero in
\* every state; in the module-level function a diagonal cell is not-a-number
\* until the block that holds it has been written, and zero from then on.
C20_DiagonalZeroOnceWritten ==
    /\ pc \in Running \cup {"idle", "done", "raised"}
           => \A p \in Diagonal : final_result[p] = 0
    /\ pc \in FunctionRunning \cup {"f_done"}
           => \A p \in Diagonal :
                  final_result[p] =
                      IF \E pr \in succeeded : p \in BlockCells(pr[1], pr[2])
                      THEN 0 ELSE NaN

\* C20 witness: the function returned a matrix of two stations whose first
\* diagonal block failed and whose other blocks were written; the two
\* off-diagonal cells differ.
C20_Witness ==
    /\ pc = "f_done"
    /\ n_stations = 2
    /\ final_result[<<0, 0>>] = NaN
    /\ final_result[<<1, 1>>] = 0
    /\ final_result[<<0, 1>>] > 0
    /\ final_result[<<1, 0>>] > 0
    /\ final_result[<<0, 1>>] # final_result[<<1, 0>>]

\* The class alone: after a run in which every request succeeded the diagonal
\* is zero and the matrix is not symmetric.
ClassDiagonalWitness ==
    /\ pc = "done"
    /\ n_stations = 2
    /\ Cardinality(succeeded) = 4
    /\ final_result[<<0, 1>>] # final_result[<<1, 0>>]

\* A trace without its writes of the progress file.
WithoutSaves(tr) == SelectSeq(tr, LAMBDA e : e[1] # "save")

IsPrefix(a, b) == Len(a) <= Len(b) /\ a = SubSeq(b, 1, Len(a))

\* C21: with no progress file present, the resumable class and the class
\* without progress file, run over the same stations and batch size with the
\* same outcome of the request for each pair, issue the same sequence of
\* requests, wait after the same requests and return the same matrix (or both
\* end with the error of a zero batch size); the writes of the progress file
\* are the only difference.
C21_EquivalentWithoutSnapshot ==
    /\ (plain_pc \in PlainRunning \cup {"p_done"} /\ FreshRun)
           => /\ pc = "done"
              /\ plain_indices = indices
              /\ IsPrefix(plain_trace, WithoutSaves(trace))
    /\ (plain_pc = "p_done" /\ FreshRun)
           => /\ RequestPairs(plain_trace) = RequestPairs(trace)
              /\ \A k \in 1..Len(plain_trace) :
                     plain_trace[k][1] = "request"
                         => \A c \in 0..1 :
                                FollowedBy(plain_trace, k, "sleep", c)
                                    <=> FollowedBy(WithoutSaves(trace), k, "sleep", c)
              /\ plain_trace = WithoutSaves(trace)
              /\ plain_final_result = final_result
              /\ progress_file = save_progress(final_result, processed_batches)
    /\ plain_pc = "p_raised" => pc = "raised"
    /\ plain_pc # "p_idle" /\ pc = "raised" => plain_pc = "p_raised"

\* C21 witness: over three stations in two windows both classes have returned
\* after the request for one pair failed and the three others succeeded.
C21_Witness ==
    /\ pc = "done"
    /\ FreshRun
    /\ plain_pc = "p_done"
    /\ n_stations = 3
    /\ batch_size = 2
    /\ Len(EventsOf(plain_trace, "request")) = 4
    /\ Len(EventsOf(plain_trace, "error")) = 1
    /\ Len(EventsOf(plain_trace, "sleep")) = 3
    /\ Len(EventsOf(trace, "save")) = 4
    /\ \E p \in DOMAIN plain_final_result : plain_final_result[p] # 0

\* The run of the resumable class that found a progress file skipped an origin
\* window, and the class without progress file requested more than it did.
ResumedRunDiffers ==
    /\ pc = "done"
    /\ plain_pc = "p_done"
    /\ ~FreshRun
    /\ Len(EventsOf(trace, "skip")) >= 1
    /\ Len(EventsOf(plain_trace, "request")) > Len(EventsOf(trace, "request"))

\* C22: from an empty progress store and across every sequence of runs, killed
\* or not, every entry of the completed record, in memory and in the progress
\* file, is a window of the partition under which at least one request
\* succeeded, and no step removes an entry from the record in the progress file.
C22_CompletedRecordOnlyGrows ==
    [][/\ \A O \in BatchSet(processed_batches')
                       \cup BatchSet(progress_file'.processed_batches) :
              /\ O \in WindowSet
              /\ \E D \in WindowSet : <<O, D>> \in succeeded'
       /\ BatchSet(progress_file.processed_batches)
              \subseteq BatchSet(progress_file'.processed_batches)]_vars

\* The first half of C22 alone: what the entries of the record are.
CompletedEntriesSucceeded ==
    \A O \in BatchSet(processed_batches) \cup BatchSet(progress_file.processed_batches) :
        /\ O \in WindowSet
        /\ \E D \in WindowSet : <<O, D>> \in succeeded

\* The second half of C22 for the writes of the progress file that complete.
RecordGrowsUnderCompletedSaves ==
    [][progress_file'.readable
           => /\ Len(progress_file.processed_batches)
                     <= Len(progress_file'.processed_batches)
              /\ progress_file.processed_batches
                     = SubSeq(progress_file'.processed_batches, 1,
                              Len(progress_file.processed_batches))]_vars

\* A process was killed inside save_progress after an entry had been written
\* to the progress file: the file is truncated and the entry is gone.
RecordLostByTornSave ==
    /\ killed_at[1] = "saving"
    /\ ~progress_file.readable
    /\ progress_file.processed_batches = <<>>
    /\ succeeded # {}

----------------------------------------------------------------------------
TypeOK ==
    /\ n_stations \in 0..MaxStations
    /\ batch_size \in (0 - MaxNegativeBatch)..MaxBatch
    /\ pc \in Running \cup {"idle", "done", "raised"}
    /\ DOMAIN final_result \subseteq Cells(n_stations)
    /\ ndim \in {1, 2}
    /\ oi \in 0..(Len(indices) + 1)
    /\ di \in 0..Len(indices)
    /\ failures \in 0..MaxFailures
    /\ runs \in 0..MaxRuns
    /\ prev_exit \in {"none", "returned", "killed"}
    /\ plain_pc \in PlainRunning \cup {"p_idle", "p_done", "p_raised"}
    /\ DOMAIN plain_final_result \subseteq Cells(n_stations)

====
